---- MODULE Spec2Model ----
(***************************************************************************)
(* Model of the STL point-cloud pipeline of STLPointCloudHero              *)
(* (src/unnamed/part_000): parseSTL, defineShapeBoundary and               *)
(* generatePointsInShape, and of the component's mount effect, its cleanup *)
(* and the asynchronous loadSTL.                                           *)
(*                                                                         *)
(* Numbers.  A JavaScript number is modelled as an exact rational or one   *)
(* of NaN, +Infinity, -Infinity, with the IEEE-754 rules for the special   *)
(* values (0/0 = NaN, x/0 = +-Infinity, Math.max(1, NaN) = NaN, every      *)
(* comparison with NaN false).  Rounding of finite values and the sign of  *)
(* zero are not modelled.  Math.sqrt of a value that need not be a perfect *)
(* square is never taken: a length is carried as its square and compared   *)
(* through squares, which is exact.                                        *)
(***************************************************************************)
EXTENDS Integers, Sequences, FiniteSets, TLC

VARIABLES
    vertices,          \* Float32Array handed to createSparsePointCloud
    targetPointCount,  \* its second argument
    pc,                \* position in createSparsePointCloud
    shapeBoundary,     \* result of defineShapeBoundary
    faceIndex,         \* faces.forEach position (1-based)
    gi, gj,            \* grid loop counters i and j
    candidatePoints,   \* Array<{point, faceIndex}>
    remaining,         \* positions of the shuffled array not yet walked
    selectedPoints,    \* accepted points, in acceptance order
    spatialHash,       \* Map from cell key to the points in the cell
    points,            \* output positions, 3 numbers per point
    colors,            \* output colors, 3 numbers per point
    buffer,            \* ArrayBuffer handed to parseSTL, as its bytes
    dpc,               \* position in parseSTL
    isASCII,           \* parseSTL's isASCII
    lines,             \* parseASCIISTL's lines
    lineIndex,         \* parseASCIISTL's i (1-based)
    parsed,            \* the parser's local vertices array
    triangles,         \* parseBinarySTL's triangles
    offset,            \* parseBinarySTL's offset
    ti, tj,            \* parseBinarySTL's i and j
    outcome,           \* "pending", "returned" or the error thrown
    result,            \* the Float32Array parseSTL returned
    alive,             \* the component instance still exists
    effectActive,      \* the mount effect has run and its cleanup has not
    effects,           \* how many times the mount effect has run
    cleanupFn,         \* the effect returned its cleanup function
    mountRef,          \* mountRef.current is the container div
    sceneRef,          \* sceneRef.current: 0 for null, else the scene's number
    rendererRef,       \* rendererRef.current: 0 for null, else the renderer's number
    pointsRef,         \* pointsRef.current: 0 for null, else the THREE.Points' number
    frameScheduled,    \* a requestAnimationFrame callback is pending
    initializedRef,    \* initializedRef.current
    loadPc,            \* position of each loadSTL call, by the effect run that made it
    sceneChildren,     \* the THREE.Points in each scene's children
    created,           \* the THREE.Points that loadSTL has constructed
    geometryDisposed,  \* those whose geometry.dispose() was called
    materialDisposed,  \* those whose material.dispose() was called
    rendererDisposed,  \* the renderers whose dispose() was called
    rotated            \* the THREE.Points the animation loop has rotated

samplerVars == <<vertices, targetPointCount, pc, shapeBoundary, faceIndex, gi, gj,
                 candidatePoints, remaining, selectedPoints, spatialHash, points, colors>>

decoderVars == <<buffer, dpc, isASCII, lines, lineIndex, parsed, triangles, offset,
                 ti, tj, outcome, result>>

lifecycleVars == <<alive, effectActive, effects, cleanupFn, mountRef, sceneRef, rendererRef,
                   pointsRef, frameScheduled, initializedRef, loadPc, sceneChildren, created,
                   geometryDisposed, materialDisposed, rendererDisposed, rotated>>

vars == <<samplerVars, decoderVars, lifecycleVars>>

----------------------------------------------------------------------------
(* Bounds of the model *)

MaxTarget == 2
MaxLines == 2
MaxTriangles == 2
MaxFaces == 2
MaxMounts == 2

----------------------------------------------------------------------------
(* The component before its first mount *)

\* the effect runs, each naming the scene, the renderer, the loadSTL call and
\* the THREE.Points it gives rise to
Runs == 1..MaxMounts

LifecycleIdle ==
    /\ alive = TRUE
    /\ effectActive = FALSE
    /\ effects = 0
    /\ cleanupFn = FALSE
    /\ mountRef = FALSE
    /\ sceneRef = 0
    /\ rendererRef = 0
    /\ pointsRef = 0
    /\ frameScheduled = FALSE
    /\ initializedRef = FALSE
    /\ loadPc = [n \in Runs |-> "none"]
    /\ sceneChildren = [n \in Runs |-> {}]
    /\ created = {}
    /\ geometryDisposed = {}
    /\ materialDisposed = {}
    /\ rendererDisposed = {}
    /\ rotated = {}

----------------------------------------------------------------------------
(* JavaScript numbers *)

Abs(n) == IF n < 0 THEN -n ELSE n

RECURSIVE GCD(_, _)
GCD(a, b) == IF b = 0 THEN a ELSE GCD(b, a % b)

Fin(n, d) ==
    LET g == GCD(Abs(n), Abs(d))
        s == IF d < 0 THEN -1 ELSE 1
    IN  [k |-> "fin", n |-> (s * n) \div g, d |-> (s * d) \div g]

Num(n) == [k |-> "fin", n |-> n, d |-> 1]
NaN == [k |-> "nan", n |-> 0, d |-> 1]
PosInf == [k |-> "inf", n |-> 1, d |-> 1]
NegInf == [k |-> "inf", n |-> -1, d |-> 1]

IsFinite(a) == a.k = "fin"
IsNaN(a) == a.k = "nan"
Sgn(a) == IF a.n > 0 THEN 1 ELSE IF a.n < 0 THEN -1 ELSE 0
InfOf(s) == IF s > 0 THEN PosInf ELSE NegInf

JsNeg(a) == IF IsNaN(a) THEN NaN ELSE [a EXCEPT !.n = -a.n]

JsAdd(a, b) ==
    IF IsNaN(a) \/ IsNaN(b) THEN NaN
    ELSE IF a.k = "inf" /\ b.k = "inf" THEN (IF a.n = b.n THEN a ELSE NaN)
    ELSE IF a.k = "inf" THEN a
    ELSE IF b.k = "inf" THEN b
    ELSE Fin(a.n * b.d + b.n * a.d, a.d * b.d)

JsSub(a, b) == JsAdd(a, JsNeg(b))

JsMul(a, b) ==
    IF IsNaN(a) \/ IsNaN(b) THEN NaN
    ELSE IF a.k = "inf" \/ b.k = "inf"
         THEN (IF Sgn(a) * Sgn(b) = 0 THEN NaN ELSE InfOf(Sgn(a) * Sgn(b)))
    ELSE Fin(a.n * b.n, a.d * b.d)

JsDiv(a, b) ==
    IF IsNaN(a) \/ IsNaN(b) THEN NaN
    ELSE IF a.k = "inf" /\ b.k = "inf" THEN NaN
    ELSE IF a.k = "inf" THEN InfOf(IF Sgn(b) < 0 THEN -a.n ELSE a.n)
    ELSE IF b.k = "inf" THEN Num(0)
    ELSE IF b.n = 0 THEN (IF a.n = 0 THEN NaN ELSE InfOf(Sgn(a)))
    ELSE Fin(a.n * b.d, a.d * b.n)

JsLt(a, b) ==
    IF IsNaN(a) \/ IsNaN(b) THEN FALSE
    ELSE IF a.k = "inf" THEN a.n < 0 /\ ~(b.k = "inf" /\ b.n < 0)
    ELSE IF b.k = "inf" THEN b.n > 0
    ELSE a.n * b.d < b.n * a.d

JsGt(a, b) == JsLt(b, a)
JsLe(a, b) == ~IsNaN(a) /\ ~IsNaN(b) /\ ~JsLt(b, a)
JsGe(a, b) == JsLe(b, a)

\* Math.max and Math.min of two arguments: NaN if either is NaN
JsMax(a, b) == IF IsNaN(a) \/ IsNaN(b) THEN NaN ELSE IF JsLt(a, b) THEN b ELSE a
JsMin(a, b) == IF IsNaN(a) \/ IsNaN(b) THEN NaN ELSE IF JsLt(b, a) THEN b ELSE a

JsFloor(a) == IF IsFinite(a) THEN Num(a.n \div a.d) ELSE a

RECURSIVE SqrtUp(_, _)
SqrtUp(n, r) == IF (r + 1) * (r + 1) > n THEN r ELSE SqrtUp(n, r + 1)
\* floor and ceiling of the square root of a natural number
ISqrtFloor(n) == SqrtUp(n, 0)
ISqrtCeil(n) == LET r == ISqrtFloor(n) IN IF r * r = n THEN r ELSE r + 1
IsSquare(n) == ISqrtFloor(n) * ISqrtFloor(n) = n

CeilDiv(n, d) == -((-n) \div d)

\* Math.ceil(Math.sqrt(a))
JsCeilSqrt(a) ==
    IF IsNaN(a) THEN NaN
    ELSE IF JsLt(a, Num(0)) THEN NaN
    ELSE IF a.k = "inf" THEN PosInf
    ELSE Num(ISqrtCeil(CeilDiv(a.n, a.d)))

----------------------------------------------------------------------------
(* Math.sin and Math.cos *)

\* Math.sin(t), for a finite t = n/d, by Bhaskara's rational approximation
\* 16 r (pi - r) / (5 pi^2 - 4 r (pi - r)) on the half period, with pi taken
\* as 22/7 and the value cut to thousandths; NaN for an argument that is not
\* finite.  The value always lies in [-1, 1].
JsSin(t) ==
    IF ~IsFinite(t) THEN NaN
    ELSE LET turns == (7 * t.n) \div (44 * t.d)
             a == 7 * t.n - 44 * turns * t.d      \* t mod 2 pi, in units of 1/(7 d)
             P == 22 * t.d                        \* pi, in the same units
             h == IF a <= P THEN a ELSE a - P
             sign == IF a <= P THEN 1 ELSE -1
         IN  Fin(sign * ((16000 * h * (P - h)) \div (5 * P * P - 4 * h * (P - h))), 1000)

\* Math.cos(t) = sin(t + pi / 2)
JsCos(t) == JsSin(JsAdd(t, Fin(11, 7)))

----------------------------------------------------------------------------
(* THREE.Vector3 *)

Vector3(x, y, z) == [x |-> x, y |-> y, z |-> z]
subVectors(a, b) == Vector3(JsSub(a.x, b.x), JsSub(a.y, b.y), JsSub(a.z, b.z))
cross(a, b) ==
    Vector3(JsSub(JsMul(a.y, b.z), JsMul(a.z, b.y)),
            JsSub(JsMul(a.z, b.x), JsMul(a.x, b.z)),
            JsSub(JsMul(a.x, b.y), JsMul(a.y, b.x)))
lengthSq(a) == JsAdd(JsAdd(JsMul(a.x, a.x), JsMul(a.y, a.y)), JsMul(a.z, a.z))
\* a.distanceTo(b), squared
distanceToSq(a, b) == lengthSq(subVectors(a, b))
addScaledVector(a, v, s) ==
    Vector3(JsAdd(a.x, JsMul(v.x, s)), JsAdd(a.y, JsMul(v.y, s)), JsAdd(a.z, JsMul(v.z, s)))

\* a.length(), for a vector whose squared length is the square of a rational
\* (the input meshes are chosen so that every face's cross product is one)
ExactLength(a) == LET q == lengthSq(a) IN IsFinite(q) /\ IsSquare(q.n) /\ IsSquare(q.d)
length(a) == LET q == lengthSq(a) IN Fin(ISqrtFloor(q.n), ISqrtFloor(q.d))

----------------------------------------------------------------------------
(* defineShapeBoundary *)

\* vertices[i] (0-based) passed to new THREE.Vector3: an index past the end
\* reads undefined, which the constructor's default parameter turns into 0
VertexAt(verts, i) == IF i + 1 <= Len(verts) THEN Num(verts[i + 1]) ELSE Num(0)

FaceCount(verts) == (Len(verts) + 8) \div 9

FaceOf(verts, f) ==
    LET i == 9 * (f - 1)
    IN  << Vector3(VertexAt(verts, i), VertexAt(verts, i + 1), VertexAt(verts, i + 2)),
           Vector3(VertexAt(verts, i + 3), VertexAt(verts, i + 4), VertexAt(verts, i + 5)),
           Vector3(VertexAt(verts, i + 6), VertexAt(verts, i + 7), VertexAt(verts, i + 8)) >>

FaceCross(face) == cross(subVectors(face[2], face[1]), subVectors(face[3], face[1]))
FaceArea(face) == JsMul(length(FaceCross(face)), Fin(1, 2))

RECURSIVE SumSeq(_, _)
SumSeq(s, acc) == IF s = <<>> THEN acc ELSE SumSeq(Tail(s), JsAdd(acc, Head(s)))

\* minX = Math.min(minX, v.x); maxX = Math.max(maxX, v.x); ... for one vertex
FoldVertex(b, v) ==
    [minX |-> JsMin(b.minX, v.x), maxX |-> JsMax(b.maxX, v.x),
     minY |-> JsMin(b.minY, v.y), maxY |-> JsMax(b.maxY, v.y),
     minZ |-> JsMin(b.minZ, v.z), maxZ |-> JsMax(b.maxZ, v.z)]

\* the six running bounds after faces.forEach over the faces fs in order,
\* each face folding its three vertices in order, starting from the bounds b0
\* (comparing b1 with b0 makes TLC compute each face's bounds as the fold
\* reaches the face, not all at the end)
RECURSIVE FoldBox(_, _)
FoldBox(fs, b0) ==
    IF fs = <<>> THEN b0
    ELSE LET face == Head(fs)
             b1 == FoldVertex(FoldVertex(FoldVertex(b0, face[1]), face[2]), face[3])
         IN  IF b1 = b0 THEN FoldBox(Tail(fs), b0) ELSE FoldBox(Tail(fs), b1)

RECURSIVE Flatten(_)
Flatten(ss) == IF ss = <<>> THEN <<>> ELSE Head(ss) \o Flatten(Tail(ss))

\* a hollow factor of 25%
HOLLOW_FACTOR_Quarter == Fin(1, 4)

\* objectSize * 0.2
HOLLOW_FACTOR == Fin(2, 10)

defineShapeBoundary(verts) ==
    LET faces == [f \in 1..FaceCount(verts) |-> FaceOf(verts, f)]
        faceAreas == [f \in 1..FaceCount(verts) |-> FaceArea(faces[f])]
        totalArea == SumSeq(faceAreas, Num(0))
        b == FoldBox(faces,
                     [minX |-> PosInf, maxX |-> NegInf, minY |-> PosInf,
                      maxY |-> NegInf, minZ |-> PosInf, maxZ |-> NegInf])
        size == Vector3(JsSub(b.maxX, b.minX), JsSub(b.maxY, b.minY), JsSub(b.maxZ, b.minZ))
        objectSize == JsMax(JsMax(size.x, size.y), size.z)
    IN  [faces |-> faces,
         faceAreas |-> faceAreas,
         totalArea |-> totalArea,
         boundingBox |-> [min |-> Vector3(b.minX, b.minY, b.minZ),
                          max |-> Vector3(b.maxX, b.maxY, b.maxZ),
                          size |-> size],
         objectCenter |-> Vector3(JsMul(JsAdd(b.minX, b.maxX), Fin(1, 2)),
                                  JsMul(JsAdd(b.minY, b.maxY), Fin(1, 2)),
                                  JsMul(JsAdd(b.minZ, b.maxZ), Fin(1, 2))),
         hollowRadius |-> JsMul(objectSize, HOLLOW_FACTOR)]

ExactAreas(verts) ==
    \A f \in 1..FaceCount(verts) : ExactLength(FaceCross(FaceOf(verts, f)))

----------------------------------------------------------------------------
(* generatePointsInShape: spacing parameters and the spatial hash *)

\* avgSpacing = Math.sqrt(totalArea / targetPointCount) * 0.8, squared
avgSpacingSq ==
    JsMul(JsDiv(shapeBoundary.totalArea, Num(targetPointCount)), JsMul(Fin(8, 10), Fin(8, 10)))

\* minDistance = avgSpacing * 0.7, squared
minDistanceSq == JsMul(avgSpacingSq, JsMul(Fin(7, 10), Fin(7, 10)))

\* a cell half as wide as minDistance
cellSizeSq_Halved == JsMul(minDistanceSq, Fin(1, 4))

\* cellSize = minDistance, squared
cellSizeSq == minDistanceSq

\* Math.floor(x / c) for c >= 0 given by its square cSq
FloorDivRoot(x, cSq) ==
    IF IsNaN(x) \/ IsNaN(cSq) THEN NaN
    ELSE IF cSq.k = "inf" THEN Num(0)
    ELSE IF cSq.n = 0 THEN (IF x.n = 0 THEN NaN ELSE InfOf(Sgn(x)))
    ELSE LET q == JsDiv(JsMul(x, x), cSq)
         IN  IF x.n >= 0 THEN Num(ISqrtFloor(q.n \div q.d))
             ELSE Num(-ISqrtCeil(CeilDiv(q.n, q.d)))

\* the key `${x},${y},${z}` as the triple of its three numbers
getHashKey(point) ==
    << FloorDivRoot(point.x, cellSizeSq),
       FloorDivRoot(point.y, cellSizeSq),
       FloorDivRoot(point.z, cellSizeSq) >>

\* an insertion that leaves the map as it was
addToSpatialHash_Skip(hash, point) == hash

addToSpatialHash(hash, point) ==
    LET key == getHashKey(point)
    IN  IF key \in DOMAIN hash
        THEN [hash EXCEPT ![key] = Append(@, point)]
        ELSE [c \in (DOMAIN hash) \cup {key} |-> IF c = key THEN <<point>> ELSE hash[c]]

\* the loops stopping one short: dx < 1 for dx <= 1
NeighborOffsets_Narrow == -1..0

\* the values dx, dy and dz range over
NeighborOffsets == -1..1

SeqToSet(s) == {s[i] : i \in DOMAIN s}

\* newPoint.distanceTo(neighbor) < minDistance
TooClose(newPoint, neighbor) == JsLt(distanceToSq(newPoint, neighbor), minDistanceSq)

isValidDistance(hash, newPoint) ==
    LET cx == FloorDivRoot(newPoint.x, cellSizeSq)
        cy == FloorDivRoot(newPoint.y, cellSizeSq)
        cz == FloorDivRoot(newPoint.z, cellSizeSq)
    IN  \A dx \in NeighborOffsets, dy \in NeighborOffsets, dz \in NeighborOffsets :
            LET neighborKey == << JsAdd(cx, Num(dx)), JsAdd(cy, Num(dy)), JsAdd(cz, Num(dz)) >>
            IN  neighborKey \in DOMAIN hash =>
                    \A neighbor \in SeqToSet(hash[neighborKey]) : ~TooClose(newPoint, neighbor)

\* >= for >
isPointInValidRegion_Ge(point) ==
    LET dSq == distanceToSq(point, shapeBoundary.objectCenter)
        h == shapeBoundary.hollowRadius
    IN  IF IsNaN(dSq) \/ IsNaN(h) THEN FALSE
        ELSE IF JsLt(h, Num(0)) THEN TRUE
        ELSE JsGe(dSq, JsMul(h, h))

\* distanceFromCenter > hollowRadius, with distanceFromCenter >= 0 given squared
isPointInValidRegion(point) ==
    LET dSq == distanceToSq(point, shapeBoundary.objectCenter)
        h == shapeBoundary.hollowRadius
    IN  IF IsNaN(dSq) \/ IsNaN(h) THEN FALSE
        ELSE IF JsLt(h, Num(0)) THEN TRUE
        ELSE JsGt(dSq, JsMul(h, h))

----------------------------------------------------------------------------
(* generatePointsInShape: candidate generation *)

\* the budget without its floor of 1
faceSamples_NoFloor(f) ==
    JsFloor(JsMul(JsMul(JsDiv(shapeBoundary.faceAreas[f], shapeBoundary.totalArea),
                        Num(targetPointCount)),
                  Num(3)))

\* a maximum that skips NaN, as fmax does
faceSamples_MaxSkipsNaN(f) ==
    LET n == JsFloor(JsMul(JsMul(JsDiv(shapeBoundary.faceAreas[f], shapeBoundary.totalArea),
                                 Num(targetPointCount)),
                           Num(3)))
    IN  IF IsNaN(n) THEN Num(1) ELSE JsMax(Num(1), n)

\* Math.max(1, Math.floor((area / totalArea) * targetPointCount * 3))
faceSamples(f) ==
    JsMax(Num(1),
          JsFloor(JsMul(JsMul(JsDiv(shapeBoundary.faceAreas[f], shapeBoundary.totalArea),
                              Num(targetPointCount)),
                        Num(3))))

samplesPerEdge(f) == JsCeilSqrt(faceSamples(f))

\* > for >=
CandidateCapReached_Late == Len(candidatePoints) > targetPointCount * 5

\* candidatePoints.length >= targetPointCount * 5
CandidateCapReached == Len(candidatePoints) >= targetPointCount * 5

\* the grid point of face f at loop counters i, j
GridPoint(f, i, j) ==
    LET s == samplesPerEdge(f)
        u == JsDiv(Num(i), s)
        v == JsDiv(Num(j), s)
        w == JsSub(JsSub(Num(1), u), v)
        face == shapeBoundary.faces[f]
        zero == Vector3(Num(0), Num(0), Num(0))
    IN  [w |-> w,
         point |-> addScaledVector(addScaledVector(addScaledVector(zero, face[1], u),
                                                   face[2], v), face[3], w)]

----------------------------------------------------------------------------
(* parseSTL: text and byte helpers *)

\* 'solid' and 'vertex' as character codes
StrSolid == << 115, 111, 108, 105, 100 >>
StrVertex == << 118, 101, 114, 116, 101, 120 >>

\* new TextDecoder().decode(buffer): an ASCII byte is its character; a byte
\* of 128 or more that is part of no valid UTF-8 sequence (the inputs hold no
\* valid multi-byte sequence) decodes to U+FFFD
TextDecode(bytes) == [i \in DOMAIN bytes |-> IF bytes[i] < 128 THEN bytes[i] ELSE 65533]

\* the white space of trim() and of \s among the ASCII characters
IsWhiteSpace(c) == c \in {9, 10, 11, 12, 13, 32}
IsDigit(c) == c \in 48..57

Drop(str, n) == SubSeq(str, n + 1, Len(str))

\* data.split('\n')
RECURSIVE SplitLines(_)
SplitLines(str) ==
    LET nl == {i \in DOMAIN str : str[i] = 10}
    IN  IF nl = {} THEN << str >>
        ELSE LET i == CHOOSE i \in nl : \A j \in nl : i <= j
             IN  << SubSeq(str, 1, i - 1) >> \o SplitLines(Drop(str, i))

\* line.trim()
Trim(str) ==
    LET ink == {i \in DOMAIN str : ~IsWhiteSpace(str[i])}
    IN  IF ink = {} THEN << >>
        ELSE SubSeq(str, CHOOSE i \in ink : \A j \in ink : i <= j,
                         CHOOSE i \in ink : \A j \in ink : i >= j)

\* line.startsWith(prefix)
StartsWith(str, prefix) == Len(str) >= Len(prefix) /\ SubSeq(str, 1, Len(prefix)) = prefix

\* line.split(/\s+/)
RECURSIVE SplitWhiteSpace(_)
SplitWhiteSpace(str) ==
    LET ws == {i \in DOMAIN str : IsWhiteSpace(str[i])}
    IN  IF ws = {} THEN << str >>
        ELSE LET i == CHOOSE i \in ws : \A j \in ws : i <= j
                 ink == {j \in DOMAIN str : j > i /\ ~IsWhiteSpace(str[j])}
                 next == IF ink = {} THEN Len(str) + 1
                         ELSE CHOOSE j \in ink : \A m \in ink : j <= m
             IN  << SubSeq(str, 1, i - 1) >> \o SplitWhiteSpace(Drop(str, next - 1))

RECURSIVE DigitsValue(_, _)
DigitsValue(str, acc) ==
    IF str = << >> THEN acc ELSE DigitsValue(Tail(str), 10 * acc + (Head(str) - 48))

RECURSIVE Pow10(_)
Pow10(n) == IF n = 0 THEN 1 ELSE 10 * Pow10(n - 1)

\* Number(token) for a token free of white space: the empty string is 0, a
\* signed decimal literal (digits with at most one point) is its value, and
\* anything else is NaN.  Exponents, Infinity and the 0x, 0o, 0b forms are
\* not modelled; the inputs hold none.
JsNumber(token) ==
    LET signed == token # << >> /\ token[1] \in {43, 45}
        body == IF signed THEN Tail(token) ELSE token
        sign == IF signed /\ token[1] = 45 THEN -1 ELSE 1
        dots == {i \in DOMAIN body : body[i] = 46}
        digits == {i \in DOMAIN body : IsDigit(body[i])}
    IN  IF token = << >> THEN Num(0)
        ELSE IF digits = {} \/ Cardinality(dots) > 1
                \/ digits \cup dots # DOMAIN body THEN NaN
        ELSE LET d == IF dots = {} THEN Len(body) + 1 ELSE CHOOSE i \in dots : TRUE
                 whole == SubSeq(body, 1, d - 1)
                 frac == Drop(body, d)
             IN  Fin(sign * DigitsValue(whole \o frac, 0), Pow10(Len(frac)))

\* view.getUint32(byteOffset, true) on bytes that are there
Uint32LE(bytes, byteOffset) ==
    bytes[byteOffset + 1] + 256 * bytes[byteOffset + 2] + 65536 * bytes[byteOffset + 3]
        + 16777216 * bytes[byteOffset + 4]

RECURSIVE Pow2(_)
Pow2(n) == IF n = 0 THEN 1 ELSE 2 * Pow2(n - 1)

\* view.getFloat32(byteOffset, true) on bytes that are there: the IEEE-754
\* binary32 value of the four bytes, least significant first.  Finite values
\* are exact for biased exponents 120..157 (2^-7 <= |v| < 2^31), which hold
\* every float of the inputs; smaller ones are cut to 0 and larger ones to
\* Infinity.
Float32LE(bytes, byteOffset) ==
    LET bits == Uint32LE(<< bytes[byteOffset + 1], bytes[byteOffset + 2], bytes[byteOffset + 3],
                           bytes[byteOffset + 4] % 128 >>, 0)
        sign == IF bytes[byteOffset + 4] >= 128 THEN -1 ELSE 1
        e == bits \div 8388608
        m == bits % 8388608
    IN  IF e = 255 THEN (IF m = 0 THEN InfOf(sign) ELSE NaN)
        ELSE IF e = 0 \/ e < 120 THEN Num(0)
        ELSE IF e > 157 THEN InfOf(sign)
        ELSE IF e >= 150 THEN Num(sign * (8388608 + m) * Pow2(e - 150))
        ELSE Fin(sign * (8388608 + m), Pow2(150 - e))

----------------------------------------------------------------------------
(* parseSTL: inputs *)

LineVertex123 == << 118, 101, 114, 116, 101, 120, 32, 49, 32, 50, 32, 51 >>   \* 'vertex 1 2 3'
LineVertexPadded == << 32, 32, 118, 101, 114, 116, 101, 120, 32, 52, 32, 53, 32, 54, 32, 13 >>   \* '  vertex 4 5 6 \r'
LineVertexTwo == << 118, 101, 114, 116, 101, 120, 32, 49, 32, 50 >>   \* 'vertex 1 2'
LineVertexBare == << 118, 101, 114, 116, 101, 120 >>   \* 'vertex'
LineVertexWord == << 118, 101, 114, 116, 101, 120, 32, 49, 32, 120, 32, 51 >>   \* 'vertex 1 x 3'
LineVertexFour == << 118, 101, 114, 116, 101, 120, 32, 49, 32, 50, 32, 51, 32, 52 >>   \* 'vertex 1 2 3 4'
LineVertexDecimal == << 118, 101, 114, 116, 101, 120, 32, 45, 49, 32, 48, 46, 53, 9, 32, 50 >>   \* 'vertex -1 0.5\t 2'
LineFacet == << 102, 97, 99, 101, 116, 32, 110, 111, 114, 109, 97, 108, 32, 48, 32, 48, 32, 49 >>   \* 'facet normal 0 0 1'
LineEndloop == << 101, 110, 100, 108, 111, 111, 112 >>   \* 'endloop'
StrSolidName == << 115, 111, 108, 105, 100, 32, 115 >>   \* 'solid s'

AsciiLines == {LineVertex123, LineVertexPadded, LineVertexTwo, LineVertexBare,
               LineVertexWord, LineVertexFour, LineVertexDecimal, LineFacet, LineEndloop}

RECURSIVE JoinLines(_)
JoinLines(ls) ==
    IF ls = << >> THEN << >>
    ELSE IF Len(ls) = 1 THEN ls[1]
    ELSE ls[1] \o << 10 >> \o JoinLines(Tail(ls))

\* texts of at most MaxLines lines, with and without a leading 'solid s' line
AsciiBuffers ==
    LET bodies == UNION {[1..n -> AsciiLines] : n \in 0..MaxLines}
    IN  {JoinLines(ls) : ls \in bodies} \cup {JoinLines(<< StrSolidName >> \o ls) : ls \in bodies}

Zeros(n) == [i \in 1..n |-> 0]

\* the four bytes, least significant first, of the binary32 of a small integer
Float32Bytes(v) ==
    CASE v = 0 -> << 0, 0, 0, 0 >>
      [] v = 1 -> << 0, 0, 128, 63 >>
      [] v = 2 -> << 0, 0, 0, 64 >>
      [] v = 3 -> << 0, 0, 64, 64 >>
      [] v = 4 -> << 0, 0, 128, 64 >>
      [] v = -1 -> << 0, 0, 128, 191 >>

\* record r of a binary STL: the normal (0, 0, 1), the triangle
\* (0,0,0) (r,0,0) (0,r,-1), and an attribute byte count of 7
BinaryRecord(r) ==
    Flatten([i \in 1..3 |-> Float32Bytes(<< 0, 0, 1 >>[i])])
        \o Flatten([i \in 1..9 |-> Float32Bytes(<< 0, 0, 0, r, 0, 0, 0, r, -1 >>[i])])
        \o << 7, 0 >>

CountBytes(n) ==
    << n % 256, (n \div 256) % 256, (n \div 65536) % 256, n \div 16777216 >>

\* a count far beyond any buffer
BigCount == 16777216

\* a header, the declared count, and MaxTriangles + 1 records
FullBinary(header, n) ==
    header \o CountBytes(n) \o Flatten([r \in 1..(MaxTriangles + 1) |-> BinaryRecord(r)])

\* what is cut from the end of a buffer that held exactly the declared records
Cuts == {0, 1, 2, 3, 5, 38, 50}

BinaryLengths(n) ==
    {80, 83, 84}
        \cup (IF n = BigCount THEN {84 + 50 * MaxTriangles}
              ELSE {84 + 50 * n - c : c \in {c \in Cuts : c <= 50 * n}} \cup {84 + 50 * n + 1})

BinaryBuffers ==
    UNION { { SubSeq(FullBinary(header, n), 1, len) : len \in BinaryLengths(n) } :
            header \in {Zeros(80), StrSolid \o Zeros(75)},
            n \in (0..MaxTriangles) \cup {BigCount} }

\* triangles of a list to encode, 9 coordinates each
EncodedTriangles ==
    { << 0, 0, 0,  1, 0, 0,  0, 1, 0 >>,
      << -1, 2, 3,  4, -1, 2,  2, 3, -1 >>,
      << 4, 4, 4,  4, 4, 4,  4, 4, 4 >> }

\* the lists of at most MaxTriangles of them
EncodedLists == UNION {[1..n -> EncodedTriangles] : n \in 0..MaxTriangles}

\* the normals and attribute byte counts an encoder may write
EncodedNormals == { << 0, 0, 1 >>, << 3, 3, 3 >> }
EncodedAttributes == { << 0, 0 >>, << 7, 1 >> }

\* one 50-byte record: 12 normal bytes, 9 float32, 2 attribute bytes
EncodeRecord(normal, triangle, attribute) ==
    Flatten([i \in 1..3 |-> Float32Bytes(normal[i])])
        \o Flatten([i \in 1..9 |-> Float32Bytes(triangle[i])])
        \o attribute

\* the binary STL of a list: a header of 80 zero bytes, the count, the records
EncodeBinary(list, normal, attribute) ==
    Zeros(80) \o CountBytes(Len(list))
        \o Flatten([k \in 1..Len(list) |-> EncodeRecord(normal, list[k], attribute)])

RoundTripBuffers ==
    { EncodeBinary(list, normal, attribute) :
        list \in EncodedLists, normal \in EncodedNormals, attribute \in EncodedAttributes }

----------------------------------------------------------------------------
(* parseSTL *)

DecoderIdle ==
    /\ buffer = << >>
    /\ dpc = "idle"
    /\ isASCII = FALSE
    /\ lines = << >>
    /\ lineIndex = 1
    /\ parsed = << >>
    /\ triangles = 0
    /\ offset = 0
    /\ ti = 0
    /\ tj = 0
    /\ outcome = "pending"
    /\ result = << >>

SamplerIdle ==
    /\ vertices = << >>
    /\ targetPointCount = 0
    /\ pc = "idle"
    /\ shapeBoundary = "null"
    /\ faceIndex = 1
    /\ gi = 0
    /\ gj = 0
    /\ candidatePoints = << >>
    /\ remaining = {}
    /\ selectedPoints = << >>
    /\ spatialHash = << >>
    /\ points = << >>
    /\ colors = << >>

DecodeInit ==
    /\ buffer \in AsciiBuffers \cup BinaryBuffers \cup RoundTripBuffers
    /\ dpc = "start"
    /\ isASCII = FALSE
    /\ lines = << >>
    /\ lineIndex = 1
    /\ parsed = << >>
    /\ triangles = 0
    /\ offset = 0
    /\ ti = 0
    /\ tj = 0
    /\ outcome = "pending"
    /\ result = << >>
    /\ SamplerIdle
    /\ LifecycleIdle

\* byteLength <= 80 for byteLength < 80
IsASCII_Le80(buf) == Len(buf) <= 80 \/ SubSeq(buf, 1, 5) = StrSolid

\* buffer.byteLength < 80 || String.fromCharCode(first 5 bytes) === 'solid'
IsASCII(buf) == Len(buf) < 80 \/ SubSeq(buf, 1, 5) = StrSolid

\* parseSTL: the format test and the dispatch
ParseSTL ==
    /\ dpc = "start"
    /\ isASCII' = IsASCII(buffer)
    /\ dpc' = IF IsASCII(buffer) THEN "ascii" ELSE "binary"
    /\ UNCHANGED <<buffer, lines, lineIndex, parsed, triangles, offset, ti, tj, outcome, result>>
    /\ UNCHANGED samplerVars
    /\ UNCHANGED lifecycleVars

\* parseASCIISTL: new TextDecoder().decode(buffer) and data.split('\n')
ParseASCIISplit ==
    /\ dpc = "ascii"
    /\ lines' = SplitLines(TextDecode(buffer))
    /\ lineIndex' = 1
    /\ dpc' = "line"
    /\ UNCHANGED <<buffer, isASCII, parsed, triangles, offset, ti, tj, outcome, result>>
    /\ UNCHANGED samplerVars
    /\ UNCHANGED lifecycleVars

\* the numbers a line adds to vertices
LineCoords(rawLine) ==
    LET line == Trim(rawLine)
    IN  IF StartsWith(line, StrVertex)
        THEN LET tokens == SplitWhiteSpace(line)
             IN  [i \in 1..(Len(tokens) - 1) |-> JsNumber(tokens[i + 1])]
        ELSE << >>

\* parseASCIISTL: one iteration of the loop over the lines, or its end and
\* the return
ParseASCIILine ==
    /\ dpc = "line"
    /\ IF lineIndex <= Len(lines)
       THEN /\ parsed' = parsed \o LineCoords(lines[lineIndex])
            /\ lineIndex' = lineIndex + 1
            /\ UNCHANGED <<dpc, outcome, result>>
       ELSE /\ result' = parsed
            /\ outcome' = "returned"
            /\ dpc' = "done"
            /\ UNCHANGED <<parsed, lineIndex>>
    /\ UNCHANGED <<buffer, isASCII, lines, triangles, offset, ti, tj>>
    /\ UNCHANGED samplerVars
    /\ UNCHANGED lifecycleVars

\* parseBinarySTL: view.getUint32(80, true), which throws a RangeError when
\* the four bytes are not all there
ParseBinaryHeader ==
    /\ dpc = "binary"
    /\ IF 80 + 4 > Len(buffer)
       THEN /\ outcome' = "RangeError"
            /\ dpc' = "done"
            /\ UNCHANGED <<triangles, offset, ti>>
       ELSE /\ triangles' = Uint32LE(buffer, 80)
            /\ offset' = 84
            /\ ti' = 0
            /\ dpc' = "triangle"
            /\ UNCHANGED outcome
    /\ UNCHANGED <<buffer, isASCII, lines, lineIndex, parsed, tj, result>>
    /\ UNCHANGED samplerVars
    /\ UNCHANGED lifecycleVars

\* the loop head without offset += 12
ParseBinaryTriangle_KeepsNormal ==
    /\ dpc = "triangle"
    /\ IF ti < triangles
       THEN /\ tj' = 0
            /\ dpc' = "float"
            /\ UNCHANGED <<offset, outcome, result>>
       ELSE /\ result' = parsed
            /\ outcome' = "returned"
            /\ dpc' = "done"
            /\ UNCHANGED <<offset, tj>>
    /\ UNCHANGED <<buffer, isASCII, lines, lineIndex, parsed, triangles, ti>>
    /\ UNCHANGED samplerVars
    /\ UNCHANGED lifecycleVars

\* parseBinarySTL: the head of the loop over the triangles (skip the normal),
\* or its end and the return
ParseBinaryTriangle ==
    /\ dpc = "triangle"
    /\ IF ti < triangles
       THEN /\ offset' = offset + 12
            /\ tj' = 0
            /\ dpc' = "float"
            /\ UNCHANGED <<outcome, result>>
       ELSE /\ result' = parsed
            /\ outcome' = "returned"
            /\ dpc' = "done"
            /\ UNCHANGED <<offset, tj>>
    /\ UNCHANGED <<buffer, isASCII, lines, lineIndex, parsed, triangles, ti>>
    /\ UNCHANGED samplerVars
    /\ UNCHANGED lifecycleVars

\* parseBinarySTL: one view.getFloat32(offset, true), which throws a
\* RangeError when the four bytes are not all there; after the ninth, skip
\* the attribute byte count and go to the next triangle
ParseBinaryFloat ==
    /\ dpc = "float"
    /\ IF tj < 9
       THEN IF offset + 4 > Len(buffer)
            THEN /\ outcome' = "RangeError"
                 /\ dpc' = "done"
                 /\ UNCHANGED <<parsed, offset, ti, tj>>
            ELSE /\ parsed' = Append(parsed, Float32LE(buffer, offset))
                 /\ offset' = offset + 4
                 /\ tj' = tj + 1
                 /\ UNCHANGED <<dpc, outcome, ti>>
       ELSE /\ offset' = offset + 2
            /\ ti' = ti + 1
            /\ dpc' = "triangle"
            /\ UNCHANGED <<parsed, outcome, tj>>
    /\ UNCHANGED <<buffer, isASCII, lines, lineIndex, triangles, result>>
    /\ UNCHANGED samplerVars
    /\ UNCHANGED lifecycleVars

DecodeNext ==
    \/ ParseSTL
    \/ ParseASCIISplit
    \/ ParseASCIILine
    \/ ParseBinaryHeader
    \/ ParseBinaryTriangle
    \/ ParseBinaryFloat

SpecDecode == DecodeInit /\ [][DecodeNext]_vars

----------------------------------------------------------------------------
(* Properties of parseSTL *)

AsciiPath == dpc \in {"ascii", "line"} \/ (dpc = "done" /\ isASCII)
BinaryPath == dpc \in {"binary", "triangle", "float"} \/ (dpc = "done" /\ ~isASCII)
HasSolidPrefix == Len(buffer) >= 5 /\ \A i \in 1..5 : buffer[i] = StrSolid[i]
\* the triangle count a buffer of 84 bytes or more declares
DeclaredTriangles == Uint32LE(buffer, 80)

\* C5: a binary buffer whose declared count needs more bytes than it has is
\* refused by a check made before any record is read, and nothing is returned.
TruncatedBinaryRejected ==
    (/\ BinaryPath
     /\ Len(buffer) >= 84
     /\ 84 + 50 * DeclaredTriangles > Len(buffer)) =>
        /\ parsed = << >>
        /\ dpc = "done" => outcome # "returned"

\* some line's leading token is vertex and fewer than 3 numeric tokens follow
HasShortVertexLine ==
    \E n \in DOMAIN SplitLines(TextDecode(buffer)) :
        LET tokens == SplitWhiteSpace(Trim(SplitLines(TextDecode(buffer))[n]))
        IN  /\ tokens[1] = StrVertex
            /\ Cardinality({i \in 2..Len(tokens) : ~IsNaN(JsNumber(tokens[i]))}) < 3

\* C6: an ASCII buffer with a vertex line of fewer than 3 numeric tokens is
\* refused instead of yielding a vertex sequence.
MalformedAsciiRejected ==
    (AsciiPath /\ dpc = "done" /\ HasShortVertexLine) => outcome # "returned"

\* C7: the ASCII path is taken exactly when the buffer is shorter than 80
\* bytes or begins with 'solid', and the binary path otherwise.
FormatDispatch ==
    dpc \notin {"idle", "start"} =>
        /\ AsciiPath <=> (Len(buffer) < 80 \/ HasSolidPrefix)
        /\ BinaryPath <=> (Len(buffer) >= 80 /\ ~HasSolidPrefix)

\* a buffer of 80 bytes or more that begins with 'solid' is being read as text
FormatDispatchWitness ==
    /\ dpc = "line"
    /\ Len(buffer) >= 80
    /\ HasSolidPrefix

\* the coordinates of a list of triangles in order, as numbers
CoordsOf(list) == Flatten([k \in 1..Len(list) |-> [i \in 1..9 |-> Num(list[k][i])]])

\* the decoder is at or past reading the binary STL of list, and what it has
\* read and returned is what was encoded
DecodesTo(list) ==
    /\ BinaryPath
    /\ triangles = (IF dpc = "binary" THEN 0 ELSE Len(list))
    /\ Len(parsed) <= 9 * Len(list)
    /\ parsed = SubSeq(CoordsOf(list), 1, Len(parsed))
    /\ dpc = "float" =>
          /\ Len(parsed) = 9 * ti + tj
          /\ offset = 84 + 50 * ti + 12 + 4 * tj
          /\ tj < 9 => offset + 4 <= 84 + 50 * ti + 48
    /\ dpc = "triangle" => Len(parsed) = 9 * ti /\ offset = 84 + 50 * ti
    /\ dpc = "done" =>
          /\ outcome = "returned"
          /\ Len(result) = 9 * Len(list)
          /\ result = CoordsOf(list)

\* C12: decoding the binary STL of a list of N triangles (80-byte header not
\* starting with 'solid', count N, N records of normal, 9 float32 and
\* attribute bytes) returns exactly the 9*N encoded coordinates in order;
\* record k is read from bytes 84 + 50k + 12 up to 84 + 50k + 48, and no
\* normal or attribute byte reaches the output.
BinaryRoundTrip ==
    dpc \notin {"idle", "start"} =>
        \A list \in EncodedLists, normal \in EncodedNormals, attribute \in EncodedAttributes :
            buffer = EncodeBinary(list, normal, attribute) => DecodesTo(list)

\* the binary STL of two different triangles, written with the normal
\* (3, 3, 3) and a non-zero attribute, has been decoded
BinaryRoundTripWitness ==
    /\ dpc = "done"
    /\ outcome = "returned"
    /\ Len(result) = 18
    /\ SubSeq(result, 1, 9) # SubSeq(result, 10, 18)
    /\ \E list \in EncodedLists :
          /\ Len(list) = 2
          /\ buffer = EncodeBinary(list, << 3, 3, 3 >>, << 7, 1 >>)
          /\ result = CoordsOf(list)

----------------------------------------------------------------------------
(* Inputs *)

MeshEmpty == <<>>
\* one triangle collapsed to a point
MeshPoint == << 1, 1, 1,  1, 1, 1,  1, 1, 1 >>
\* one collinear triangle
MeshCollinear == << 0, 0, 0,  2, 0, 0,  4, 0, 0 >>
\* one triangle in the plane y = 1
MeshFlatY == << -2, 1, -2,  2, 1, -2,  -2, 1, 2 >>
\* a square of two triangles around the origin
MeshSquare == << -2, -2, 0,  2, -2, 0,  2, 2, 0,
                 -2, -2, 0,  2, 2, 0,  -2, 2, 0 >>
\* a thin triangle: grid points closer to each other than minDistance
MeshThin == << -3, -1, -2,  3, -1, -2,  -3, 0, -2 >>
\* a collinear face with a vertex at distance hollowRadius from the centre,
\* followed by a large triangle
MeshHollowEdge == << 5, 3, 0,  5, 4, 0,  5, 2, 0,
                     0, 0, 0,  10, 0, 0,  0, 10, 0 >>

\* two collinear faces followed by a large triangle
MeshCapped == << 5, 3, 0,  5, 4, 0,  5, 2, 0,
                 1, 1, 0,  2, 2, 0,  3, 3, 0,
                 0, 0, 0,  10, 0, 0,  0, 10, 0 >>

Meshes == {MeshEmpty, MeshPoint, MeshCollinear, MeshFlatY, MeshSquare, MeshThin,
           MeshHollowEdge}

----------------------------------------------------------------------------
(* createSparsePointCloud *)

\* four small triangles next to each other, one vertex of each at distance
\* hollowRadius from the centre, followed by a large triangle
MeshCluster == << 5, 3, 0,  5, 2, 0,  6, 2, 0,
                  5, 3, 0,  4, 2, 0,  5, 2, 0,
                  5, 3, 0,  5, 2, 0,  6, 2, 0,
                  5, 3, 0,  4, 2, 0,  5, 2, 0,
                  0, 0, 0,  10, 0, 0,  0, 10, 0 >>

\* the target MeshCluster is sampled for
ClusterTarget == 2

\* the target MeshCapped is sampled for
CappedTarget == 1

\* the arguments of createSparsePointCloud: every mesh of Meshes with every
\* target up to MaxTarget, MeshCluster with ClusterTarget and MeshCapped with
\* CappedTarget
SamplerInputs ==
    ({m \in Meshes : ExactAreas(m)} \X (0..MaxTarget))
        \cup {<< MeshCluster, ClusterTarget >>, << MeshCapped, CappedTarget >>}

Init ==
    /\ \E input \in SamplerInputs :
          /\ vertices = input[1]
          /\ targetPointCount = input[2]
    /\ pc = "stage1"
    /\ shapeBoundary = "null"
    /\ faceIndex = 1
    /\ gi = 0
    /\ gj = 0
    /\ candidatePoints = <<>>
    /\ remaining = {}
    /\ selectedPoints = <<>>
    /\ spatialHash = <<>>
    /\ points = <<>>
    /\ colors = <<>>
    /\ DecoderIdle
    /\ LifecycleIdle

\* Stage 1: defineShapeBoundary(vertices)
Analyze ==
    /\ pc = "stage1"
    /\ shapeBoundary' = defineShapeBoundary(vertices)
    /\ pc' = "face"
    /\ UNCHANGED <<vertices, targetPointCount, faceIndex, gi, gj, candidatePoints,
                   remaining, selectedPoints, spatialHash, points, colors>>
    /\ UNCHANGED decoderVars
    /\ UNCHANGED lifecycleVars

\* faces.forEach: the next face, or the end of generation
GenFace ==
    /\ pc = "face"
    /\ IF faceIndex > Len(shapeBoundary.faces)
       THEN pc' = "shuffle" /\ UNCHANGED gi
       ELSE pc' = "row" /\ gi' = 0
    /\ UNCHANGED <<vertices, targetPointCount, shapeBoundary, faceIndex, gj,
                   candidatePoints, remaining, selectedPoints, spatialHash, points, colors>>
    /\ UNCHANGED decoderVars
    /\ UNCHANGED lifecycleVars

\* for (let i = 0; i <= samplesPerEdge; i++)
GenRow ==
    /\ pc = "row"
    /\ IF JsLe(Num(gi), samplesPerEdge(faceIndex))
       THEN pc' = "cell" /\ gj' = 0 /\ UNCHANGED faceIndex
       ELSE pc' = "face" /\ faceIndex' = faceIndex + 1 /\ UNCHANGED gj
    /\ UNCHANGED <<vertices, targetPointCount, shapeBoundary, gi, candidatePoints,
                   remaining, selectedPoints, spatialHash, points, colors>>
    /\ UNCHANGED decoderVars
    /\ UNCHANGED lifecycleVars

\* for (let j = 0; j <= samplesPerEdge - i; j++): one iteration, or the loop's end
GenCell ==
    /\ pc = "cell"
    /\ IF JsLe(Num(gj), JsSub(samplesPerEdge(faceIndex), Num(gi)))
       THEN IF CandidateCapReached
            THEN /\ pc' = "row"
                 /\ gi' = gi + 1
                 /\ UNCHANGED <<gj, candidatePoints>>
            ELSE LET g == GridPoint(faceIndex, gi, gj)
                 IN  /\ candidatePoints' =
                            IF JsGe(g.w, Num(0))
                            THEN Append(candidatePoints,
                                        [point |-> g.point, faceIndex |-> faceIndex - 1])
                            ELSE candidatePoints
                     /\ gj' = gj + 1
                     /\ UNCHANGED <<pc, gi>>
       ELSE /\ pc' = "row"
            /\ gi' = gi + 1
            /\ UNCHANGED <<gj, candidatePoints>>
    /\ UNCHANGED <<vertices, targetPointCount, shapeBoundary, faceIndex, remaining,
                   selectedPoints, spatialHash, points, colors>>
    /\ UNCHANGED decoderVars
    /\ UNCHANGED lifecycleVars

\* The Fisher-Yates shuffle.  Math.random is unconstrained, so the loop can
\* leave the candidates in any order; the order is kept implicit: remaining
\* holds the candidates the walk has not reached yet, and each step of the
\* walk takes any one of them as the next element of the shuffled array.
Shuffle ==
    /\ pc = "shuffle"
    /\ remaining' = DOMAIN candidatePoints
    /\ pc' = "select"
    /\ UNCHANGED <<vertices, targetPointCount, shapeBoundary, faceIndex, gi, gj,
                   candidatePoints, selectedPoints, spatialHash, points, colors>>
    /\ UNCHANGED decoderVars
    /\ UNCHANGED lifecycleVars

\* > for >=
SelectionFull_OffByOne == Len(selectedPoints) > targetPointCount

\* selectedPoints.length >= targetPointCount
SelectionFull == Len(selectedPoints) >= targetPointCount

\* (Math.sin(point.x * 10) + Math.cos(point.z * 10)) * 0.1
PositionVariation(point) ==
    JsMul(JsAdd(JsSin(JsMul(point.x, Num(10))), JsCos(JsMul(point.z, Num(10)))), Fin(1, 10))

\* Math.max(0.3, Math.min(1.0, x))
Clamp(x) == JsMax(Fin(3, 10), JsMin(Num(1), x))

\* the intensity of an accepted point
Intensity(point) ==
    LET box == shapeBoundary.boundingBox
        heightFactor == JsDiv(JsSub(point.y, box.min.y), box.size.y)
        baseIntensity == JsAdd(Fin(6, 10), JsMul(heightFactor, Fin(4, 10)))
    IN  Clamp(JsAdd(baseIntensity, PositionVariation(point)))

ColorOf(intensity) ==
    << JsMul(intensity, Fin(9, 10)), JsMul(intensity, Num(1)), JsMul(intensity, Fin(12, 10)) >>

\* for (const candidate of candidatePoints): one iteration, or the loop's end
\* and the return
Select ==
    /\ pc = "select"
    /\ IF remaining = {} \/ SelectionFull
       THEN /\ pc' = "done"
            /\ UNCHANGED <<remaining, selectedPoints, spatialHash, points, colors>>
       ELSE \E c \in remaining :
              LET p == candidatePoints[c].point
              IN  /\ remaining' = remaining \ {c}
                  /\ pc' = "select"
                  /\ IF isPointInValidRegion(p) /\ isValidDistance(spatialHash, p)
                     THEN /\ selectedPoints' = Append(selectedPoints, p)
                          /\ spatialHash' = addToSpatialHash(spatialHash, p)
                          /\ points' = points \o <<p.x, p.y, p.z>>
                          /\ colors' = colors \o ColorOf(Intensity(p))
                     ELSE UNCHANGED <<selectedPoints, spatialHash, points, colors>>
    /\ UNCHANGED <<vertices, targetPointCount, shapeBoundary, faceIndex, gi, gj,
                   candidatePoints>>
    /\ UNCHANGED decoderVars
    /\ UNCHANGED lifecycleVars

Next == Analyze \/ GenFace \/ GenRow \/ GenCell \/ Shuffle \/ Select

Spec == Init /\ [][Next]_vars

----------------------------------------------------------------------------
(* Properties of generatePointsInShape *)

Started == pc # "stage1"
OutputCount == Len(points) \div 3
OutputPoint(k) == Vector3(points[3 * k - 2], points[3 * k - 1], points[3 * k])
OutputColor(k) == << colors[3 * k - 2], colors[3 * k - 1], colors[3 * k] >>
\* the points inserted into the spatial hash so far
Inserted == UNION {SeqToSet(spatialHash[key]) : key \in DOMAIN spatialHash}
\* the candidates the walk has passed
Visited == (DOMAIN candidatePoints) \ remaining
HasNegativeCoordinate(p) == p.x.n < 0 \/ p.y.n < 0 \/ p.z.n < 0

\* C1: any two distinct accepted points, at every step of the acceptance loop
\* and in the returned positions, are at least minDistance apart.
MinDistanceInvariant ==
    Started =>
        /\ \A a, b \in DOMAIN selectedPoints :
              a # b => JsGe(distanceToSq(selectedPoints[a], selectedPoints[b]), minDistanceSq)
        /\ \A a, b \in 1..OutputCount :
              a # b => JsGe(distanceToSq(OutputPoint(a), OutputPoint(b)), minDistanceSq)

\* the walk has ended with two accepted points after refusing a candidate of
\* negative coordinate that is closer than minDistance to an accepted point of
\* another cell
MinDistanceWitness ==
    /\ pc = "done"
    /\ OutputCount >= 2
    /\ \E c \in Visited :
          LET p == candidatePoints[c].point
          IN  /\ HasNegativeCoordinate(p)
              /\ isPointInValidRegion(p)
              /\ p \notin SeqToSet(selectedPoints)
              /\ \E q \in SeqToSet(selectedPoints) :
                    TooClose(p, q) /\ getHashKey(p) # getHashKey(q)

\* C2: every accepted point is farther than hollowRadius from the centre of
\* the bounding box.
HollowInvariant ==
    Started =>
        \A k \in 1..OutputCount :
            JsGt(distanceToSq(OutputPoint(k), shapeBoundary.objectCenter),
                 JsMul(shapeBoundary.hollowRadius, shapeBoundary.hollowRadius))

\* the walk has passed a candidate at distance exactly hollowRadius and has
\* accepted another point
HollowWitness ==
    /\ pc = "done"
    /\ OutputCount >= 1
    /\ JsGt(shapeBoundary.hollowRadius, Num(0))
    /\ \E c \in Visited :
          distanceToSq(candidatePoints[c].point, shapeBoundary.objectCenter)
              = JsMul(shapeBoundary.hollowRadius, shapeBoundary.hollowRadius)

\* C3: positions and colors have the same length, three numbers per accepted
\* point, and there are never more accepted points than targetPointCount.
CountBound ==
    /\ Len(points) = Len(colors)
    /\ Len(points) = 3 * Len(selectedPoints)
    /\ Len(selectedPoints) <= targetPointCount

\* the walk stopped at the target with candidates left over
CountBoundWitness ==
    /\ pc = "done"
    /\ targetPointCount >= 2
    /\ Len(selectedPoints) = targetPointCount
    /\ Len(colors) = 3 * targetPointCount
    /\ remaining # {}

\* some inserted point lies within minDistance of the query point
BruteForceNeighbor(query) == \E q \in Inserted : TooClose(query, q)

\* C4: for every query point the 27-cell check agrees with a scan over all
\* inserted points.
HashQueryCorrect ==
    pc \in {"select", "done"} =>
        \A c \in DOMAIN candidatePoints :
            (~isValidDistance(spatialHash, candidatePoints[c].point))
                <=> BruteForceNeighbor(candidatePoints[c].point)

\* a query of negative cell has a neighbour within minDistance in another
\* cell, and another query has inserted points but none within minDistance
HashQueryWitness ==
    /\ pc = "select"
    /\ \E c \in DOMAIN candidatePoints :
          LET p == candidatePoints[c].point
          IN  /\ \E i \in 1..3 : getHashKey(p)[i].n < 0
              /\ \E q \in Inserted : TooClose(p, q) /\ getHashKey(p) # getHashKey(q)
    /\ \E c \in DOMAIN candidatePoints :
          /\ Inserted # {}
          /\ isValidDistance(spatialHash, candidatePoints[c].point)

\* C8: a triangle list of total area 0 yields no candidate and empty
\* positions and colors.
DegenerateEmpty ==
    (Started /\ shapeBoundary.totalArea = Num(0)) =>
        /\ candidatePoints = <<>>
        /\ points = <<>>
        /\ colors = <<>>

\* a collinear triangle of positive extent has been sampled for a positive
\* target
DegenerateWitness ==
    /\ pc = "done"
    /\ shapeBoundary.totalArea = Num(0)
    /\ Len(shapeBoundary.faces) >= 1
    /\ JsGt(shapeBoundary.hollowRadius, Num(0))
    /\ targetPointCount >= 1
    /\ points = <<>>

\* C9: every emitted color is (0.9 I, 1.0 I, 1.2 I) for an intensity I of
\* [0.3, 1.0], the clamp of 0.6 + 0.4 h + 0.1 (sin + cos).
ColorRange ==
    Started =>
        \A k \in 1..(Len(colors) \div 3) :
            LET I == OutputColor(k)[2]
            IN  /\ JsGe(I, Fin(3, 10)) /\ JsLe(I, Num(1))
                /\ OutputColor(k) = << JsMul(I, Fin(9, 10)), I, JsMul(I, Fin(12, 10)) >>
                /\ \A i \in 1..3 : /\ JsGe(OutputColor(k)[i], Fin(27, 100))
                                   /\ JsLe(OutputColor(k)[i], Fin(12, 10))
                /\ I = Intensity(OutputPoint(k))

\* C10: for a mesh of positive area whose box has size.y = 0 the height
\* factor is 0, so that every emitted color is a finite number from an
\* intensity of [0.3, 1.0].
ZeroExtentHeightGuard ==
    (/\ Started
     /\ shapeBoundary.boundingBox.size.y = Num(0)
     /\ JsGt(shapeBoundary.totalArea, Num(0))) =>
        \A k \in 1..(Len(colors) \div 3) :
            /\ \A i \in 1..3 : IsFinite(OutputColor(k)[i])
            /\ OutputColor(k)[2] = Clamp(JsAdd(Fin(6, 10), PositionVariation(OutputPoint(k))))

----------------------------------------------------------------------------
(* defineShapeBoundary on its own: inputs *)

FaceUnit == << 0, 0, 0,  1, 0, 0,  0, 1, 0 >>
\* a triangle in the plane x = 0 reaching from y = -4 to y = 4
FaceTall == << 0, -4, 1,  0, 4, 1,  0, -4, 4 >>

BoundaryFaces == {FaceUnit, FaceTall, MeshPoint, MeshCollinear, MeshFlatY, MeshThin}

\* the unit cube [0,1]^3 as 12 triangles, two per side
MeshUnitCube ==
    << 0, 0, 0,  1, 0, 0,  1, 1, 0,    0, 0, 0,  1, 1, 0,  0, 1, 0,
       0, 0, 1,  1, 0, 1,  1, 1, 1,    0, 0, 1,  1, 1, 1,  0, 1, 1,
       0, 0, 0,  1, 0, 0,  1, 0, 1,    0, 0, 0,  1, 0, 1,  0, 0, 1,
       0, 1, 0,  1, 1, 0,  1, 1, 1,    0, 1, 0,  1, 1, 1,  0, 1, 1,
       0, 0, 0,  0, 1, 0,  0, 1, 1,    0, 0, 0,  0, 1, 1,  0, 0, 1,
       1, 0, 0,  1, 1, 0,  1, 1, 1,    1, 0, 0,  1, 1, 1,  1, 0, 1 >>

\* the triangle lists of n faces drawn from BoundaryFaces
RECURSIVE FaceLists(_)
FaceLists(n) ==
    IF n = 0 THEN { << >> }
    ELSE {l \o f : l \in FaceLists(n - 1), f \in BoundaryFaces}

TriangleLists ==
    UNION {FaceLists(n) : n \in 0..MaxFaces} \cup Meshes \cup {MeshUnitCube}

\* createSparsePointCloud about to run stage 1 on any of the triangle lists
AnalyzeInit ==
    /\ vertices \in {m \in TriangleLists : ExactAreas(m)}
    /\ targetPointCount \in 0..MaxTarget
    /\ pc = "stage1"
    /\ shapeBoundary = "null"
    /\ faceIndex = 1
    /\ gi = 0
    /\ gj = 0
    /\ candidatePoints = <<>>
    /\ remaining = {}
    /\ selectedPoints = <<>>
    /\ spatialHash = <<>>
    /\ points = <<>>
    /\ colors = <<>>
    /\ DecoderIdle
    /\ LifecycleIdle

SpecAnalyze == AnalyzeInit /\ [][Analyze]_vars

----------------------------------------------------------------------------
(* Properties of defineShapeBoundary *)

\* coordinate i (1-based) of the input lies between lo and hi of its axis
CoordinateInBox(i) ==
    LET box == shapeBoundary.boundingBox
        c == Num(vertices[i])
        lo == IF i % 3 = 1 THEN box.min.x ELSE IF i % 3 = 2 THEN box.min.y ELSE box.min.z
        hi == IF i % 3 = 1 THEN box.max.x ELSE IF i % 3 = 2 THEN box.max.y ELSE box.max.z
    IN  JsLe(lo, c) /\ JsLe(c, hi)

\* the three extents max - min of the box
BoxExtents ==
    LET box == shapeBoundary.boundingBox
    IN  { JsSub(box.max.x, box.min.x), JsSub(box.max.y, box.min.y),
          JsSub(box.max.z, box.min.z) }

BoundaryContract ==
    LET box == shapeBoundary.boundingBox
        center == shapeBoundary.objectCenter
    IN  /\ JsLe(box.min.x, box.max.x) /\ JsLe(box.min.y, box.max.y)
        /\ JsLe(box.min.z, box.max.z)
        /\ \A i \in DOMAIN vertices : CoordinateInBox(i)
        /\ JsMul(center.x, Num(2)) = JsAdd(box.min.x, box.max.x)
        /\ JsMul(center.y, Num(2)) = JsAdd(box.min.y, box.max.y)
        /\ JsMul(center.z, Num(2)) = JsAdd(box.min.z, box.max.z)
        /\ \E e \in BoxExtents :
              /\ \A o \in BoxExtents : JsGe(e, o)
              /\ JsMul(shapeBoundary.hollowRadius, Num(5)) = e
        /\ vertices = MeshUnitCube =>
              /\ box.size = Vector3(Num(1), Num(1), Num(1))
              /\ center = Vector3(Fin(1, 2), Fin(1, 2), Fin(1, 2))
              /\ shapeBoundary.hollowRadius = Fin(1, 5)

\* C11 (as stated): for every triangle list the box has min <= max on each
\* axis and contains every vertex, the center is the box midpoint and
\* hollowRadius is 0.2 times the largest extent (unit cube: size (1,1,1),
\* center (0.5,0.5,0.5), hollowRadius 0.2).
BoundaryOfEveryList == Started => BoundaryContract

\* C11 (amended): the same for every triangle list of at least one triangle;
\* the empty list leaves min at +Infinity and max at -Infinity.
BoundaryOfNonEmptyList == (Started /\ vertices # << >>) => BoundaryContract

\* the unit cube has been analysed
BoundaryWitness ==
    /\ Started
    /\ vertices = MeshUnitCube
    /\ shapeBoundary.hollowRadius = Fin(1, 5)
    /\ Len(shapeBoundary.faces) = 12

----------------------------------------------------------------------------
(* Properties of candidate generation *)

\* the candidates pushed for face f (1-based)
CandidatesOf(f) == {c \in DOMAIN candidatePoints : candidatePoints[c].faceIndex = f - 1}

\* C13: the number of candidates never exceeds 5 * targetPointCount, and
\* once that many have been produced no step adds a candidate, in the
\* remaining rows of the current face or in a later face.
CandidateCap ==
    /\ [](Len(candidatePoints) <= 5 * targetPointCount)
    /\ [][Len(candidatePoints) >= 5 * targetPointCount
            => candidatePoints' = candidatePoints]_vars

\* for a positive target the cap was reached inside a face, at a grid cell
\* that would have given a candidate, with a later face of positive area
\* still to come
CandidateCapWitness ==
    /\ pc = "cell"
    /\ targetPointCount >= 1
    /\ Len(candidatePoints) = 5 * targetPointCount
    /\ JsLe(Num(gj), JsSub(samplesPerEdge(faceIndex), Num(gi)))
    /\ JsGe(GridPoint(faceIndex, gi, gj).w, Num(0))
    /\ \E f \in (faceIndex + 1)..Len(shapeBoundary.faces) :
          JsGt(shapeBoundary.faceAreas[f], Num(0))

----------------------------------------------------------------------------
(* Properties of the selection loop *)

\* the candidate's distance to the center exceeds hollowRadius
OutsideHollow(p) ==
    JsGt(distanceToSq(p, shapeBoundary.objectCenter),
         JsMul(shapeBoundary.hollowRadius, shapeBoundary.hollowRadius))

\* some accepted point lies within minDistance of p
NearAccepted(p) ==
    \E q \in SeqToSet(selectedPoints) : JsLt(distanceToSq(p, q), minDistanceSq)

\* the step examines candidate c and accepts it exactly when the rule says so,
\* the accepted point being in the index after the step
ExaminedByRule(c) ==
    LET p == candidatePoints[c].point
    IN  IF OutsideHollow(p) /\ ~NearAccepted(p)
        THEN /\ selectedPoints' = Append(selectedPoints, p)
             /\ p \in Inserted'
        ELSE /\ selectedPoints' = selectedPoints
             /\ spatialHash' = spatialHash

\* the loop ended with every candidate examined and fewer than
\* targetPointCount accepted
Exhausted ==
    /\ pc = "done"
    /\ remaining = {}
    /\ Len(selectedPoints) < targetPointCount

\* C14: a candidate is accepted exactly when its distance to the center
\* exceeds hollowRadius and no point accepted earlier lies within minDistance
\* of it; every accepted point is in the index before the next candidate is
\* examined; and when the loop ends with the candidates exhausted and fewer
\* than targetPointCount accepted, every candidate that was not accepted is
\* within hollowRadius of the center or within minDistance of an accepted
\* point.
AcceptanceRule ==
    /\ [][(pc = "select" /\ remaining' # remaining) =>
            \A c \in remaining \ remaining' : ExaminedByRule(c)]_vars
    /\ [](pc \in {"select", "done"} => Inserted = SeqToSet(selectedPoints))
    /\ []((pc = "done" /\ Len(selectedPoints) < targetPointCount) =>
            /\ remaining = {}
            /\ \A c \in DOMAIN candidatePoints :
                  LET p == candidatePoints[c].point
                  IN  p \notin SeqToSet(selectedPoints) =>
                          ~OutsideHollow(p) \/ NearAccepted(p))

\* the candidates are exhausted with one point accepted for a target of two:
\* one candidate was refused at distance exactly hollowRadius, another for an
\* accepted point within minDistance
AcceptanceWitness ==
    /\ Exhausted
    /\ Len(selectedPoints) = 1
    /\ \E c \in DOMAIN candidatePoints :
          distanceToSq(candidatePoints[c].point, shapeBoundary.objectCenter)
              = JsMul(shapeBoundary.hollowRadius, shapeBoundary.hollowRadius)
    /\ \E c \in DOMAIN candidatePoints :
          /\ candidatePoints[c].point \notin SeqToSet(selectedPoints)
          /\ OutsideHollow(candidatePoints[c].point)
          /\ NearAccepted(candidatePoints[c].point)

----------------------------------------------------------------------------
(* Properties of the per-face sample budget *)

Generated == pc \in {"shuffle", "select", "done"}

\* the candidates pushed for the faces before face f
CandidatesBefore(f) == {c \in DOMAIN candidatePoints : candidatePoints[c].faceIndex < f - 1}

\* C15 (as stated): every face, a zero-area or tiny one included, has a
\* sample budget of at least 1 and contributes at least one candidate.
EveryFaceContributes ==
    Generated =>
        \A f \in DOMAIN shapeBoundary.faces :
            /\ JsGe(faceSamples(f), Num(1))
            /\ CandidatesOf(f) # {}

\* C15 (amended): in a triangle list of positive total area every face, a
\* zero-area or tiny one included, has a sample budget of at least 1, and
\* contributes at least one candidate unless the faces before it have
\* already produced 5 * targetPointCount candidates.
FaceFloorUnderCap ==
    (Generated /\ JsGt(shapeBoundary.totalArea, Num(0))) =>
        \A f \in DOMAIN shapeBoundary.faces :
            /\ JsGe(faceSamples(f), Num(1))
            /\ \/ CandidatesOf(f) # {}
               \/ Cardinality(CandidatesBefore(f)) >= 5 * targetPointCount

\* a zero-area face of a list of positive total area got the budget 1 and
\* gave candidates, as did every other face, for a positive target
FaceFloorWitness ==
    /\ Generated
    /\ targetPointCount >= 1
    /\ JsGt(shapeBoundary.totalArea, Num(0))
    /\ \E f \in DOMAIN shapeBoundary.faces :
          /\ shapeBoundary.faceAreas[f] = Num(0)
          /\ faceSamples(f) = Num(1)
          /\ CandidatesOf(f) # {}
    /\ \A f \in DOMAIN shapeBoundary.faces : CandidatesOf(f) # {}

----------------------------------------------------------------------------
(* The mount effect, its cleanup and loadSTL *)

LifecycleInit ==
    /\ SamplerIdle
    /\ DecoderIdle
    /\ LifecycleIdle

\* pointsRef.current, as the set of the THREE.Points it holds
HeldPoints == IF pointsRef = 0 THEN {} ELSE {pointsRef}

\* rendererRef.current, as the set of the renderers it holds
HeldRenderer == IF rendererRef = 0 THEN {} ELSE {rendererRef}

\* the children of every scene after sceneRef.current has lost all of its own
WithoutSceneChildren == [k \in Runs |-> IF k = sceneRef THEN {} ELSE sceneChildren[k]]

\* React commits the component (attaching mountRef) and runs the effect:
\* unless initialized, dispose what an earlier scene and renderer still hold,
\* initScene (mountRef.current is set, so it does not return early), loadSTL
\* up to its first await (its own disposal of pointsRef.current, then fetch),
\* animate (the first tick finds pointsRef.current null and requests a
\* frame), and the cleanup function is returned
Mount ==
    /\ alive
    /\ ~effectActive
    /\ effects < MaxMounts
    /\ effects' = effects + 1
    /\ effectActive' = TRUE
    /\ mountRef' = TRUE
    /\ IF initializedRef
       THEN /\ cleanupFn' = FALSE
            /\ UNCHANGED <<sceneRef, rendererRef, pointsRef, frameScheduled, initializedRef,
                           loadPc, sceneChildren, geometryDisposed, materialDisposed,
                           rendererDisposed>>
       ELSE LET n == effects + 1
                stale == IF sceneRef = 0 THEN {} ELSE sceneChildren[sceneRef]
            IN  /\ sceneChildren' = WithoutSceneChildren
                /\ geometryDisposed' = geometryDisposed \cup stale \cup HeldPoints
                /\ materialDisposed' = materialDisposed \cup stale \cup HeldPoints
                /\ rendererDisposed' = rendererDisposed \cup HeldRenderer
                /\ sceneRef' = n
                /\ rendererRef' = n
                /\ pointsRef' = 0
                /\ loadPc' = [loadPc EXCEPT ![n] = "fetch"]
                /\ frameScheduled' = TRUE
                /\ initializedRef' = TRUE
                /\ cleanupFn' = TRUE
    /\ UNCHANGED <<alive, created, rotated>>
    /\ UNCHANGED samplerVars
    /\ UNCHANGED decoderVars

\* React runs the effect's cleanup, either for an unmount (the ref detached
\* and the instance gone) or to run the effect again on the same instance
Unmount ==
    /\ effectActive
    /\ effectActive' = FALSE
    /\ \E detached \in BOOLEAN :
          /\ alive' = ~detached
          /\ mountRef' = (mountRef /\ ~detached)
    /\ IF cleanupFn
       THEN /\ frameScheduled' = FALSE
            /\ geometryDisposed' = geometryDisposed \cup HeldPoints
            /\ materialDisposed' = materialDisposed \cup HeldPoints
            /\ pointsRef' = 0
            /\ sceneChildren' = WithoutSceneChildren
            /\ sceneRef' = 0
            /\ rendererDisposed' = rendererDisposed \cup HeldRenderer
            /\ rendererRef' = 0
            /\ initializedRef' = FALSE
            /\ cleanupFn' = FALSE
       ELSE UNCHANGED <<frameScheduled, geometryDisposed, materialDisposed, pointsRef,
                        sceneChildren, sceneRef, rendererDisposed, rendererRef,
                        initializedRef, cleanupFn>>
    /\ UNCHANGED <<effects, loadPc, created, rotated>>
    /\ UNCHANGED samplerVars
    /\ UNCHANGED decoderVars

\* loadSTL resumes after await fetch: the promise rejected (caught), the
\* response is not ok (return), or the response is ok (await arrayBuffer)
FetchSettles(n) ==
    /\ loadPc[n] = "fetch"
    /\ \E settled \in {"rejected", "notOk", "ok"} :
          loadPc' = [loadPc EXCEPT ![n] = IF settled = "ok" THEN "arrayBuffer" ELSE "done"]
    /\ UNCHANGED <<alive, effectActive, effects, cleanupFn, mountRef, sceneRef, rendererRef,
                   pointsRef, frameScheduled, initializedRef, sceneChildren, created,
                   geometryDisposed, materialDisposed, rendererDisposed, rotated>>
    /\ UNCHANGED samplerVars
    /\ UNCHANGED decoderVars

\* loadSTL resumes after await response.arrayBuffer(): the promise rejected or
\* parseSTL threw (caught), or the point cloud is built, added to
\* sceneRef.current if there is one, and stored in pointsRef.current
BufferSettles(n) ==
    /\ loadPc[n] = "arrayBuffer"
    /\ loadPc' = [loadPc EXCEPT ![n] = "done"]
    /\ \E settled \in {"threw", "built"} :
          IF settled = "built"
          THEN /\ created' = created \cup {n}
               /\ sceneChildren' =
                      IF sceneRef = 0 THEN sceneChildren
                      ELSE [sceneChildren EXCEPT ![sceneRef] = @ \cup {n}]
               /\ pointsRef' = n
          ELSE UNCHANGED <<created, sceneChildren, pointsRef>>
    /\ UNCHANGED <<alive, effectActive, effects, cleanupFn, mountRef, sceneRef, rendererRef,
                   frameScheduled, initializedRef, geometryDisposed, materialDisposed,
                   rendererDisposed, rotated>>
    /\ UNCHANGED samplerVars
    /\ UNCHANGED decoderVars

\* the requestAnimationFrame callback: rotate pointsRef.current if it is
\* set, render, request the next frame
Tick ==
    /\ frameScheduled
    /\ rotated' = rotated \cup HeldPoints
    /\ UNCHANGED <<alive, effectActive, effects, cleanupFn, mountRef, sceneRef, rendererRef,
                   pointsRef, frameScheduled, initializedRef, loadPc, sceneChildren, created,
                   geometryDisposed, materialDisposed, rendererDisposed>>
    /\ UNCHANGED samplerVars
    /\ UNCHANGED decoderVars

LifecycleNext ==
    \/ Mount
    \/ Unmount
    \/ \E n \in Runs : FetchSettles(n)
    \/ \E n \in Runs : BufferSettles(n)
    \/ Tick

SpecLifecycle == LifecycleInit /\ [][LifecycleNext]_vars

----------------------------------------------------------------------------
(* Properties of the lifecycle *)

\* the cleanup has run and the effect has not run again
CleanedUp == effects >= 1 /\ ~effectActive

\* C16: once the cleanup has run and the component is not mounted again,
\* pointsRef.current is null and every point cloud loadSTL has created has had
\* its geometry and its material disposed, whenever the load completes.
UnmountDisposesPointCloud ==
    CleanedUp =>
        /\ pointsRef = 0
        /\ created \subseteq geometryDisposed
        /\ created \subseteq materialDisposed

====
